---- MODULE Spec2Model ----
(***************************************************************************)
(* Task API Service (backend/server.js) and Task Management Web Client     *)
(* (frontend/src/App.js) of the deployment bundle, and its provisioning     *)
(* scripts (aws-setup.sh, deploy-instances.sh), as a state machine.        *)
(*                                                                         *)
(* A document (a Task, a request body, a response body) is a function from *)
(* field names to values: an absent field is a name outside its DOMAIN, so *)
(* the object spread of the create handler and the $set of the update      *)
(* handler are both the right-biased Merge below.                          *)
(***************************************************************************)
EXTENDS Integers, Sequences, FiniteSets, TLC

\* ------------------------------------------------------------------ bounds
\* Number of ObjectIds the backends may generate.
MaxId == 2
\* Last value of the wall clock (Date.now / process.uptime), in clock ticks.
MaxClock == 2
\* Number of client calls that may be in flight together.
MaxInflight == 2
\* Number of operations (create, toggle, delete) the user performs.
MaxOps == 3
\* Number of times the operator runs a provisioning script.
MaxRuns == 2

\* ------------------------------------------------------------ environment
\* The horizontally replicated backend processes behind the load balancer.
Procs == {"p1", "p2"}

\* A request path segment that does not cast to an ObjectId.
BadId == 0
\* The well-formed identifiers.
ObjectIds == 1..MaxId
\* What a request may carry as :id.
ParamIds == ObjectIds \cup {BadId}

hostname(p) == IF p = "p1" THEN "ip-10-0-3-7" ELSE "ip-10-0-4-9"

\* os.networkInterfaces(): interface name -> addresses, in key order.
\* p1 has an external IPv4 address; p2 has only loopback and IPv6 ones.
networkInterfaces(p) ==
  IF p = "p1"
  THEN << << [family |-> "IPv4", internal |-> TRUE,  address |-> "127.0.0.1"],
             [family |-> "IPv6", internal |-> TRUE,  address |-> "::1"] >>,
          << [family |-> "IPv6", internal |-> FALSE, address |-> "fe80::1"],
             [family |-> "IPv4", internal |-> FALSE, address |-> "10.0.3.7"],
             [family |-> "IPv4", internal |-> FALSE, address |-> "10.0.3.8"] >> >>
  ELSE << << [family |-> "IPv4", internal |-> TRUE,  address |-> "127.0.0.1"] >>,
          << [family |-> "IPv6", internal |-> FALSE, address |-> "fe80::2"] >> >>

\* ------------------------------------------------------------- documents
\* { ...a, ...b }: the fields of b win.
Merge(a, b) ==
  [f \in (DOMAIN a) \cup (DOMAIN b) |-> IF f \in DOMAIN b THEN b[f] ELSE a[f]]

Has(d, f) == f \in DOMAIN d

\* The paths of TaskSchema (plus the identifier every model has).
SchemaPaths ==
  {"_id", "title", "description", "completed", "createdAt",
   "serverHostname", "serverIp"}

\* Mongoose strict mode: fields that are no schema path are dropped.
Strict(d) == [f \in (DOMAIN d) \cap SchemaPaths |-> d[f]]

\* JSON null, as a response body.
Null == [null |-> TRUE]
\* No response body field of that kind.
None == [none |-> TRUE]

\* ------------------------------------------------------- backend: helpers
\* The inner loop of getServerIp: the first external IPv4 address of one
\* interface's address list, "" when it has none.
RECURSIVE FirstExternalIPv4(_)
FirstExternalIPv4(addrs) ==
  IF Len(addrs) = 0 THEN ""
  ELSE IF Head(addrs).family = "IPv4" /\ ~Head(addrs).internal
       THEN Head(addrs).address
       ELSE FirstExternalIPv4(Tail(addrs))

\* getServerIp over the interfaces in key order.
RECURSIVE ScanInterfaces(_)
ScanInterfaces(interfaces) ==
  IF Len(interfaces) = 0 THEN "unknown"
  ELSE IF FirstExternalIPv4(Head(interfaces)) # ""
       THEN FirstExternalIPv4(Head(interfaces))
       ELSE ScanInterfaces(Tail(interfaces))

\* Mutant: only the first interface is scanned, and no fallback is given.
getServerIpFirstOnly(p) == FirstExternalIPv4(Head(networkInterfaces(p)))

getServerIp(p) == ScanInterfaces(networkInterfaces(p))

\* The object handed to new Task(...) by the create handler: the request
\* body, then the two server fields, which win over the body's.
CreateFields(body, p) ==
  Merge(body, [serverHostname |-> hostname(p), serverIp |-> getServerIp(p)])

\* The schema defaults, applied to the paths the object leaves undefined;
\* id is the ObjectId generated for the document, t is Date.now().
SchemaDefaults(id, t) == [_id |-> id, completed |-> FALSE, createdAt |-> t]

\* new Task(obj): strict mode, then the defaults.
NewTask(obj, id, t) == Merge(SchemaDefaults(id, t), Strict(obj))

\* Mutant: the title is not required.
TitleOptional(doc) == TRUE

\* title: { type: String, required: true }: undefined and "" both fail.
TitleRequired(doc) == Has(doc, "title") /\ doc.title # ""

\* A response: status, the error kind ("" when none), and the body's parts.
Response(status, error, message, task, list) ==
  [status |-> status, error |-> error, message |-> message,
   task |-> task, list |-> list]

ErrorResponse(status, error) == Response(status, error, "", None, << >>)

Stored(st, id) == \E d \in st : d._id = id
Doc(st, id) == CHOOSE d \in st : d._id = id

\* ------------------------------------------------------ backend: handlers
\* Each handler yields the store and the response it leaves.

\* task.save(): validation, then the insert.
SaveTask(st, task, up) ==
  IF ~TitleRequired(task)
  THEN [store |-> st, resp |-> ErrorResponse(400, "ValidationError")]
  ELSE IF ~up
  THEN [store |-> st, resp |-> ErrorResponse(400, "MongooseError")]
  ELSE IF Stored(st, task._id)
  THEN [store |-> st, resp |-> ErrorResponse(400, "E11000")]
  ELSE [store |-> st \cup {task}, resp |-> Response(201, "", "", task, << >>)]

\* POST /api/tasks
PostTask(st, body, p, id, t, up) ==
  SaveTask(st, NewTask(CreateFields(body, p), id, t), up)

\* Mutant: findByIdAndUpdate with { upsert: true }.
FindByIdAndUpdateUpsert(st, id, body, up) ==
  IF id = BadId
  THEN [store |-> st, resp |-> ErrorResponse(400, "CastError")]
  ELSE IF ~up
  THEN [store |-> st, resp |-> ErrorResponse(400, "MongooseError")]
  ELSE LET old == IF Stored(st, id) THEN Doc(st, id) ELSE [_id |-> id]
           new == Merge(old, Strict(body))
       IN [store |-> (st \ {old}) \cup {new},
           resp |-> Response(200, "", "", new, << >>)]

\* Task.findByIdAndUpdate(id, body, { new: true }): no validators run, the
\* body's schema paths are $set on the matching document.
FindByIdAndUpdate(st, id, body, up) ==
  IF id = BadId
  THEN [store |-> st, resp |-> ErrorResponse(400, "CastError")]
  ELSE IF ~up
  THEN [store |-> st, resp |-> ErrorResponse(400, "MongooseError")]
  ELSE IF ~Stored(st, id)
  THEN [store |-> st, resp |-> Response(200, "", "", Null, << >>)]
  ELSE IF Has(body, "_id") /\ body._id # id
  THEN [store |-> st, resp |-> ErrorResponse(400, "ImmutableField")]
  ELSE LET new == Merge(Doc(st, id), Strict(body))
       IN [store |-> (st \ {Doc(st, id)}) \cup {new},
           resp |-> Response(200, "", "", new, << >>)]

\* PUT /api/tasks/:id
PutTask(st, id, body, up) == FindByIdAndUpdate(st, id, body, up)

\* DELETE /api/tasks/:id: findByIdAndDelete gives the document or null,
\* and the handler answers the same either way.
DeleteTask(st, id, up) ==
  IF id = BadId
  THEN [store |-> st, resp |-> ErrorResponse(400, "CastError")]
  ELSE IF ~up
  THEN [store |-> st, resp |-> ErrorResponse(400, "MongooseError")]
  ELSE [store |-> {d \in st : d._id # id},
        resp |-> Response(200, "", "Task deleted", None, << >>)]

\* Mutant: sort({ createdAt: 1 }).
CreatedAtAscending(a, b) == a.createdAt <= b.createdAt

\* sort({ createdAt: -1 }): a may come before b.
CreatedAtDescending(a, b) == a.createdAt >= b.createdAt

\* The results Task.find().sort({ createdAt: -1 }) may give: every stored
\* task once, in an order the sort key allows (ties in any order).
FindSorted(st) ==
  {l \in [1..Cardinality(st) -> st] :
     /\ \A i, j \in 1..Cardinality(st) : i # j => l[i] # l[j]
     /\ \A i, j \in 1..Cardinality(st) :
          i < j => CreatedAtDescending(l[i], l[j])}

\* Mutant: the rejection of the query is not caught and nothing is answered.
GetTasksUncaught(list, up) ==
  IF ~up THEN ErrorResponse(0, "")
  ELSE Response(200, "", "", None, list)

\* GET /api/tasks, given the result of the query.
GetTasks(list, up) ==
  IF ~up THEN ErrorResponse(500, "MongooseError")
  ELSE Response(200, "", "", None, list)

\* Mutant: the probe fails while the store connection is down.
GetHealthNeedsStore(p, up, upt, t) ==
  IF up
  THEN Response(200, "", "OK",
                [uptime |-> upt, timestamp |-> t, hostname |-> hostname(p),
                 ip |-> getServerIp(p)], << >>)
  ELSE Response(503, "MongooseError", "", None, << >>)

\* GET /health: up, the state of the store connection, is not read.
GetHealth(p, up, upt, t) ==
  Response(200, "", "OK",
           [uptime |-> upt, timestamp |-> t, hostname |-> hostname(p),
            ip |-> getServerIp(p)], << >>)

\* GET /api/server-info (the memory figures are not modelled)
GetServerInfo(p, upt) ==
  Response(200, "", "",
           [hostname |-> hostname(p), ip |-> getServerIp(p),
            platform |-> "linux", uptime |-> upt], << >>)

\* --------------------------------------------------- provisioning scripts
\* aws-setup.sh and deploy-instances.sh are sequences of commands run by
\* one shell at a time. A command names an operation, its options (each a
\* literal word or the expansion of a shell variable) and where its output
\* goes: a shell variable, the key file, or nowhere.
V(name) == [var |-> name]
L(word) == [lit |-> word]
Cmd(op, args, out) == [op |-> op, args |-> args, out |-> out]
NoOptions == [o \in {} |-> L("")]

\* > ${KEY_PAIR_NAME}.pem
KeyFile == ">fullstack-key.pem"

ShellVars ==
  { "VPC_ID", "IGW_ID", "PUBLIC_SUBNET_1", "PUBLIC_SUBNET_2",
    "PRIVATE_SUBNET_1", "PRIVATE_SUBNET_2", "ROUTE_TABLE_ID", "ALB_SG",
    "BACKEND_SG", "FRONTEND_SG", "DB_SG", "TARGET_GROUP_ARN", "ALB_ARN",
    "ALB_DNS", "KEY_PAIR_NAME", "AMI_ID", "INSTANCE_TYPE", "DB_INSTANCE_TYPE",
    "DB_INSTANCE_ID", "DB_PRIVATE_IP" }

\* Commands that are no call to the cloud control plane.
LocalOps == { "assign", "chmod", "save-config", "source", "write-user-data" }

AnyCidr == L("0.0.0.0/0")
Tcp(port) == L(port)

\* aws-setup.sh: Configuration Variables
SetupVariables ==
  << Cmd("assign", [KEY_PAIR_NAME |-> L("fullstack-key"),
                    AMI_ID |-> L("ami-0c55b159cbfafe1f0"),
                    INSTANCE_TYPE |-> L("t3.micro"),
                    DB_INSTANCE_TYPE |-> L("t3.small")], "") >>

\* Step 1: Create VPC
Step1 ==
  << Cmd("create-vpc", [cidr |-> L("10.0.0.0/16")], "VPC_ID"),
     Cmd("modify-vpc-attribute", [vpc |-> V("VPC_ID")], "") >>

\* Step 2: Create Internet Gateway
Step2 ==
  << Cmd("create-internet-gateway", NoOptions, "IGW_ID"),
     Cmd("attach-internet-gateway", [vpc |-> V("VPC_ID"), igw |-> V("IGW_ID")], "") >>

\* Step 3: Create Subnets (2 public, 2 private)
Step3 ==
  << Cmd("create-subnet", [vpc |-> V("VPC_ID"), cidr |-> L("10.0.1.0/24"),
                           az |-> L("us-east-1a")], "PUBLIC_SUBNET_1"),
     Cmd("create-subnet", [vpc |-> V("VPC_ID"), cidr |-> L("10.0.2.0/24"),
                           az |-> L("us-east-1b")], "PUBLIC_SUBNET_2"),
     Cmd("create-subnet", [vpc |-> V("VPC_ID"), cidr |-> L("10.0.3.0/24"),
                           az |-> L("us-east-1a")], "PRIVATE_SUBNET_1"),
     Cmd("create-subnet", [vpc |-> V("VPC_ID"), cidr |-> L("10.0.4.0/24"),
                           az |-> L("us-east-1b")], "PRIVATE_SUBNET_2") >>

\* Step 4: Create Route Table and Routes
Step4 ==
  << Cmd("create-route-table", [vpc |-> V("VPC_ID")], "ROUTE_TABLE_ID"),
     Cmd("create-route", [rtb |-> V("ROUTE_TABLE_ID"), cidr |-> AnyCidr,
                          igw |-> V("IGW_ID")], ""),
     Cmd("associate-route-table", [subnet |-> V("PUBLIC_SUBNET_1"),
                                   rtb |-> V("ROUTE_TABLE_ID")], ""),
     Cmd("associate-route-table", [subnet |-> V("PUBLIC_SUBNET_2"),
                                   rtb |-> V("ROUTE_TABLE_ID")], "") >>

\* Step 5 with the database group open to any address instead of to the
\* backend group.
Step5DatabaseOpen ==
  << Cmd("create-security-group", [name |-> L("alb-sg"), vpc |-> V("VPC_ID")], "ALB_SG"),
     Cmd("authorize-security-group-ingress",
         [group |-> V("ALB_SG"), port |-> Tcp("80"), cidr |-> AnyCidr], ""),
     Cmd("authorize-security-group-ingress",
         [group |-> V("ALB_SG"), port |-> Tcp("443"), cidr |-> AnyCidr], ""),
     Cmd("create-security-group", [name |-> L("backend-sg"), vpc |-> V("VPC_ID")], "BACKEND_SG"),
     Cmd("authorize-security-group-ingress",
         [group |-> V("BACKEND_SG"), port |-> Tcp("5000"), source |-> V("ALB_SG")], ""),
     Cmd("authorize-security-group-ingress",
         [group |-> V("BACKEND_SG"), port |-> Tcp("22"), cidr |-> AnyCidr], ""),
     Cmd("create-security-group", [name |-> L("frontend-sg"), vpc |-> V("VPC_ID")], "FRONTEND_SG"),
     Cmd("authorize-security-group-ingress",
         [group |-> V("FRONTEND_SG"), port |-> Tcp("80"), cidr |-> AnyCidr], ""),
     Cmd("authorize-security-group-ingress",
         [group |-> V("FRONTEND_SG"), port |-> Tcp("22"), cidr |-> AnyCidr], ""),
     Cmd("create-security-group", [name |-> L("db-sg"), vpc |-> V("VPC_ID")], "DB_SG"),
     Cmd("authorize-security-group-ingress",
         [group |-> V("DB_SG"), port |-> Tcp("27017"), cidr |-> AnyCidr], "") >>

\* Step 5: Create Security Groups
Step5 ==
  << Cmd("create-security-group", [name |-> L("alb-sg"), vpc |-> V("VPC_ID")], "ALB_SG"),
     Cmd("authorize-security-group-ingress",
         [group |-> V("ALB_SG"), port |-> Tcp("80"), cidr |-> AnyCidr], ""),
     Cmd("authorize-security-group-ingress",
         [group |-> V("ALB_SG"), port |-> Tcp("443"), cidr |-> AnyCidr], ""),
     Cmd("create-security-group", [name |-> L("backend-sg"), vpc |-> V("VPC_ID")], "BACKEND_SG"),
     Cmd("authorize-security-group-ingress",
         [group |-> V("BACKEND_SG"), port |-> Tcp("5000"), source |-> V("ALB_SG")], ""),
     Cmd("authorize-security-group-ingress",
         [group |-> V("BACKEND_SG"), port |-> Tcp("22"), cidr |-> AnyCidr], ""),
     Cmd("create-security-group", [name |-> L("frontend-sg"), vpc |-> V("VPC_ID")], "FRONTEND_SG"),
     Cmd("authorize-security-group-ingress",
         [group |-> V("FRONTEND_SG"), port |-> Tcp("80"), cidr |-> AnyCidr], ""),
     Cmd("authorize-security-group-ingress",
         [group |-> V("FRONTEND_SG"), port |-> Tcp("22"), cidr |-> AnyCidr], ""),
     Cmd("create-security-group", [name |-> L("db-sg"), vpc |-> V("VPC_ID")], "DB_SG"),
     Cmd("authorize-security-group-ingress",
         [group |-> V("DB_SG"), port |-> Tcp("27017"), source |-> V("BACKEND_SG")], "") >>

\* Step 6: Create Key Pair
Step6 ==
  << Cmd("create-key-pair", [name |-> V("KEY_PAIR_NAME")], KeyFile),
     Cmd("chmod", NoOptions, "") >>

\* Step 7: Create Target Group
Step7 ==
  << Cmd("create-target-group",
         [name |-> L("backend-tg"), port |-> Tcp("5000"), vpc |-> V("VPC_ID"),
          path |-> L("/health")], "TARGET_GROUP_ARN") >>

\* Step 8: Create Application Load Balancer
Step8 ==
  << Cmd("create-load-balancer",
         [name |-> L("backend-alb"), subnet |-> V("PUBLIC_SUBNET_1"),
          subnet2 |-> V("PUBLIC_SUBNET_2"), sg |-> V("ALB_SG")], "ALB_ARN"),
     Cmd("describe-load-balancers", [alb |-> V("ALB_ARN")], "ALB_DNS") >>

\* Step 9: Create Listener
Step9 ==
  << Cmd("create-listener",
         [alb |-> V("ALB_ARN"), port |-> Tcp("80"), tg |-> V("TARGET_GROUP_ARN")], "") >>

\* Save configuration: cat > aws-config.txt
SaveConfig == << Cmd("save-config", NoOptions, "") >>

\* The script with the listener created before the target group and the
\* load balancer.
SetupScriptListenerFirst ==
  SetupVariables \o Step1 \o Step2 \o Step3 \o Step4 \o Step5 \o Step6
    \o Step9 \o Step7 \o Step8 \o SaveConfig

SetupScript ==
  SetupVariables \o Step1 \o Step2 \o Step3 \o Step4 \o Step5 \o Step6
    \o Step7 \o Step8 \o Step9 \o SaveConfig

\* The fields of the heredoc that is written to aws-config.txt.
ConfigFields ==
  { "VPC_ID", "IGW_ID", "PUBLIC_SUBNET_1", "PUBLIC_SUBNET_2",
    "PRIVATE_SUBNET_1", "PRIVATE_SUBNET_2", "ALB_SG", "BACKEND_SG",
    "FRONTEND_SG", "DB_SG", "TARGET_GROUP_ARN", "ALB_ARN", "ALB_DNS",
    "KEY_PAIR_NAME" }

\* The heredoc with the second private subnet's line holding the second
\* public subnet.
ConfigRecordCrossed(e) ==
  [f \in ConfigFields |->
     IF f = "PRIVATE_SUBNET_2" THEN e["PUBLIC_SUBNET_2"] ELSE e[f]]

ConfigRecord(e) == [f \in ConfigFields |-> e[f]]

\* deploy-instances.sh with the address read before the wait.
DeployScriptReadsEarly ==
  << Cmd("source", NoOptions, ""),
     Cmd("assign", [AMI_ID |-> L("ami-0c55b159cbfafe1f0"),
                    INSTANCE_TYPE |-> L("t3.micro")], ""),
     Cmd("write-user-data", NoOptions, ""),
     Cmd("run-instances",
         [image |-> V("AMI_ID"), type |-> L("t3.small"),
          key |-> V("KEY_PAIR_NAME"), sg |-> V("DB_SG"),
          subnet |-> V("PRIVATE_SUBNET_1"),
          userdata |-> L("file://db-user-data.sh")], "DB_INSTANCE_ID"),
     Cmd("describe-instances", [instance |-> V("DB_INSTANCE_ID")], "DB_PRIVATE_IP"),
     Cmd("wait instance-running", [instance |-> V("DB_INSTANCE_ID")], "") >>

\* deploy-instances.sh, as far as the source has it: the database instance.
DeployScript ==
  << Cmd("source", NoOptions, ""),
     Cmd("assign", [AMI_ID |-> L("ami-0c55b159cbfafe1f0"),
                    INSTANCE_TYPE |-> L("t3.micro")], ""),
     Cmd("write-user-data", NoOptions, ""),
     Cmd("run-instances",
         [image |-> V("AMI_ID"), type |-> L("t3.small"),
          key |-> V("KEY_PAIR_NAME"), sg |-> V("DB_SG"),
          subnet |-> V("PRIVATE_SUBNET_1"),
          userdata |-> L("file://db-user-data.sh")], "DB_INSTANCE_ID"),
     Cmd("wait instance-running", [instance |-> V("DB_INSTANCE_ID")], ""),
     Cmd("describe-instances", [instance |-> V("DB_INSTANCE_ID")], "DB_PRIVATE_IP") >>

\* set -e is unset: a failing command does not end the script.
ErrExitUnset(s) == FALSE

\* set -e, at the head of both scripts
ErrExit(s) == s \in {"setup", "deploy"}

\* Parameter expansion of the options of a command in environment e.
Expand(args, e) ==
  [o \in DOMAIN args |-> IF Has(args[o], "var") THEN e[args[o].var] ELSE args[o].lit]

\* ---- the cloud control plane, at the boundary
\* The account is a set of resources and links [kind, id, of], "of" being
\* the options of the call that made it.
Kind(op) ==
  CASE op = "create-vpc" -> "vpc"
    [] op = "create-internet-gateway" -> "igw"
    [] op = "create-subnet" -> "subnet"
    [] op = "create-route-table" -> "rtb"
    [] op = "create-security-group" -> "sg"
    [] op = "create-key-pair" -> "key"
    [] op = "create-target-group" -> "tg"
    [] op = "create-load-balancer" -> "alb"
    [] op = "create-listener" -> "listener"
    [] op = "run-instances" -> "instance"
    [] op = "modify-vpc-attribute" -> "vpc-attribute"
    [] op = "attach-internet-gateway" -> "attachment"
    [] op = "create-route" -> "route"
    [] op = "associate-route-table" -> "association"
    [] op = "authorize-security-group-ingress" -> "ingress"
    [] OTHER -> ""

\* Kinds the control plane gives a fresh identifier.
Identified ==
  { "vpc", "igw", "subnet", "rtb", "sg", "tg", "alb", "listener", "instance" }
\* Kinds whose name is unique in the account and region.
UniquelyNamed == { "key", "tg", "alb" }

ResourceId(kind, n) == kind \o "-" \o ToString(n)
KeyMaterial(n) == "key-material-" \o ToString(n)
DnsName(arn) == "dns." \o arn
PrivateIp(instance) == "ip." \o instance

\* The options that must name an existing resource, and of which kind.
KindOfOption ==
  [vpc |-> "vpc", igw |-> "igw", subnet |-> "subnet", subnet2 |-> "subnet",
   rtb |-> "rtb", group |-> "sg", source |-> "sg", sg |-> "sg", tg |-> "tg",
   alb |-> "alb", key |-> "key", instance |-> "instance"]

Exists(cl, kind, id) == \E r \in cl : r.kind = kind /\ r.id = id

\* The control plane rejects a call that names a resource that is not there
\* (an empty word included) or a unique name that is taken.
Accepts(cl, op, a) ==
  /\ \A o \in (DOMAIN a) \cap (DOMAIN KindOfOption) : Exists(cl, KindOfOption[o], a[o])
  /\ Kind(op) \in UniquelyNamed =>
       ~\E r \in cl : r.kind = Kind(op) /\ r.of.name = a.name

NewId(op, a, n) ==
  IF Kind(op) \in Identified THEN ResourceId(Kind(op), n)
  ELSE IF Kind(op) = "key" THEN a.name
  ELSE ""

Effect(op, a, n) ==
  IF Kind(op) = "" THEN {}
  ELSE { [kind |-> Kind(op), id |-> NewId(op, a, n), of |-> a] }

\* What --query ... --output text prints of the answer.
Output(op, a, n) ==
  CASE op = "create-key-pair" -> KeyMaterial(n)
    [] op = "describe-load-balancers" -> DnsName(a.alb)
    [] op = "describe-instances" -> PrivateIp(a.instance)
    [] Kind(op) \in Identified -> ResourceId(Kind(op), n)
    [] OTHER -> ""

\* ------------------------------------------------------------------ state
VARIABLES
  store,       \* the Task collection: a set of documents with distinct _id
  now,         \* the wall clock, Date.now()
  uptime,      \* process.uptime() of each backend process
  nextId,      \* the next ObjectId a backend generates
  dbUp,        \* whether the mongoose connection can serve operations
  req,         \* the request handled last
  resp,        \* the response to it
  created,     \* history: for each stored task, in creation order, the
               \* clock and the process of the create request that made it
  deleted,     \* history: identifiers whose stored task a delete removed
  lastUptime,  \* history: the uptime each process reported last on /health
  view,        \* the App component: "new", "mounted", "torn" or "crashed"
  tasks,       \* App state: the in-memory task list
  serverInfo,  \* App state: the server-info snapshot shown
  newTask,     \* App state: the form fields
  loading,     \* App state: a create is being submitted
  timerOn,     \* the setInterval timer of the effect is set
  sinceFire,   \* milliseconds since the timer was set or fired last
  calls,       \* the fetch calls in flight, each with the closure of the
               \* handler that awaits it
  lateCall,    \* history: a fetch was issued after the view was torn down
  tog,         \* history: the first task toggled and its toggles so far
  ops,         \* history: the number of operations the user has performed
  early,       \* history: an operation was issued while the list fetch of
               \* the mount was in flight
  script,      \* the provisioning script the shell runs: "none", "setup", "deploy"
  pc,          \* the place of the shell in the script
  status,      \* of the shell: "idle", "running", "done" or "aborted"
  env,         \* the shell's variables; "" is unset
  cloud,       \* the account: the resources and links the control plane holds
  files,       \* the working directory: aws-config.txt, the key file, user data
  nextRes,     \* the number in the next identifier the control plane issues
  runs,        \* history: the number of script runs started
  trace,       \* history: the commands of the current run and their results
  began        \* history: aws-config.txt and the account when the run began

svars ==
  <<store, now, uptime, nextId, dbUp, req, resp, created, deleted, lastUptime>>
cvars ==
  <<view, tasks, serverInfo, newTask, loading, timerOn, sinceFire, calls,
    lateCall, tog, ops, early>>
ivars ==
  <<script, pc, status, env, cloud, files, nextRes, runs, trace, began>>
vars == <<svars, cvars, ivars>>

\* Request bodies are JSON objects: any subset of fields may appear.
EmptyBody == [f \in {} |-> ""]
OwnId(body) == Has(body, "_id")

\* What a task form or a script would send.
PlainBodies == { [title |-> "a"], EmptyBody }
\* A create that names its own identifier.
OwnIdBodies == { [title |-> "a", _id |-> i] : i \in ObjectIds }
\* The completion toggle.
ToggleBodies == { [completed |-> TRUE], [completed |-> FALSE] }
\* Bodies that carry the fields the server is to set.
ServerFieldBodies ==
  { [title |-> "a", createdAt |-> 0],
    [title |-> "a", description |-> "d", role |-> "admin",
     serverHostname |-> "evil", serverIp |-> "6.6.6.6"] }

\* Updates of the title, to a text and to the empty text.
TitleBodies == { [title |-> "b"], [title |-> ""] }

Request(op, id, body, p, found) ==
  [op |-> op, id |-> id, body |-> body, proc |-> p, db |-> dbUp, found |-> found]

BlankTask == [title |-> "", description |-> ""]
NoToggle == [id |-> BadId, orig |-> None, issued |-> 0, done |-> 0, failed |-> FALSE]

Init ==
  /\ view = "new"
  /\ tasks = << >>
  /\ serverInfo = Null
  /\ newTask = BlankTask
  /\ loading = FALSE
  /\ timerOn = FALSE
  /\ sinceFire = 0
  /\ calls = << >>
  /\ lateCall = FALSE
  /\ tog = NoToggle
  /\ ops = 0
  /\ early = FALSE
  /\ store = {}
  /\ now = 1
  /\ uptime = [p \in Procs |-> 0]
  /\ nextId = 1
  /\ dbUp = TRUE
  /\ req = Request("none", BadId, EmptyBody, "p1", FALSE)
  /\ resp = ErrorResponse(0, "")
  /\ created = << >>
  /\ deleted = {}
  /\ lastUptime = [p \in Procs |-> -1]
  /\ script = "none"
  /\ pc = 0
  /\ status = "idle"
  /\ env = [v \in ShellVars |-> ""]
  /\ cloud = {}
  /\ files = [config |-> None, pem |-> None, userdata |-> FALSE]
  /\ nextRes = 1
  /\ runs = 0
  /\ trace = << >>
  /\ began = [config |-> None, cloud |-> {}]

\* History bookkeeping: the creation records without identifier id.
Without(seq, id) == SelectSeq(seq, LAMBDA c : c.id # id)

\* ------------------------------------------------------------ environment
\* Time passes on the host clock and on every process's uptime.
Tick ==
  /\ now < MaxClock
  /\ now' = now + 1
  /\ uptime' = [p \in Procs |-> uptime[p] + 1]
  /\ UNCHANGED <<store, nextId, dbUp, req, resp, created, deleted, lastUptime>>

\* The connection to the document store is lost (or was never made: the
\* failure of mongoose.connect is logged and the process keeps listening).
DbDisconnect ==
  /\ dbUp
  /\ dbUp' = FALSE
  /\ UNCHANGED <<store, now, uptime, nextId, req, resp, created, deleted, lastUptime>>

DbReconnect ==
  /\ ~dbUp
  /\ dbUp' = TRUE
  /\ UNCHANGED <<store, now, uptime, nextId, req, resp, created, deleted, lastUptime>>

\* ------------------------------------------------------------- API requests
\* Each handler is an action on the backend's state that yields its
\* response r; the request actions below record the exchange as well.
HandleHealth(p, r) ==
  /\ r = GetHealth(p, dbUp, uptime[p], now)
  /\ lastUptime' = [lastUptime EXCEPT ![p] = uptime[p]]
  /\ UNCHANGED <<store, now, uptime, nextId, dbUp, created, deleted>>

HandleServerInfo(p, r) ==
  /\ r = GetServerInfo(p, uptime[p])
  /\ UNCHANGED <<store, now, uptime, nextId, dbUp, created, deleted, lastUptime>>

HandleList(r) ==
  /\ \E list \in FindSorted(store) : r = GetTasks(list, dbUp)
  /\ UNCHANGED <<store, now, uptime, nextId, dbUp, created, deleted, lastUptime>>

\* A body that names an _id names one the client has seen in a response:
\* an ObjectId a backend has yet to generate cannot be guessed.
HandleCreate(body, p, r) ==
  /\ IF OwnId(body) THEN body._id < nextId ELSE nextId <= MaxId
  /\ r = PostTask(store, body, p, nextId, now, dbUp).resp
  /\ store' = PostTask(store, body, p, nextId, now, dbUp).store
  /\ created' = IF r.status = 201
                THEN Append(created, [id |-> r.task._id, at |-> now, by |-> p])
                ELSE created
  /\ nextId' = IF OwnId(body) THEN nextId ELSE nextId + 1
  /\ UNCHANGED <<now, uptime, dbUp, deleted, lastUptime>>

HandleUpdate(id, body, r) ==
  /\ r = PutTask(store, id, body, dbUp).resp
  /\ store' = PutTask(store, id, body, dbUp).store
  /\ UNCHANGED <<now, uptime, nextId, dbUp, created, deleted, lastUptime>>

HandleDelete(id, r) ==
  /\ r = DeleteTask(store, id, dbUp).resp
  /\ store' = DeleteTask(store, id, dbUp).store
  /\ created' = IF Stored(store', id) THEN created ELSE Without(created, id)
  /\ deleted' = IF Stored(store, id) /\ ~Stored(store', id)
                THEN deleted \cup {id} ELSE deleted
  /\ UNCHANGED <<now, uptime, nextId, dbUp, lastUptime>>

Health(p) ==
  /\ HandleHealth(p, resp')
  /\ req' = Request("health", BadId, EmptyBody, p, FALSE)

ServerInfo(p) ==
  /\ HandleServerInfo(p, resp')
  /\ req' = Request("server-info", BadId, EmptyBody, p, FALSE)

ListTasks ==
  /\ HandleList(resp')
  /\ req' = Request("list", BadId, EmptyBody, "p1", FALSE)

CreateTask(body, p) ==
  /\ HandleCreate(body, p, resp')
  /\ req' = Request("create", BadId, body, p, FALSE)

UpdateTask(id, body) ==
  /\ HandleUpdate(id, body, resp')
  /\ req' = Request("update", id, body, "p1", Stored(store, id))

RemoveTask(id) ==
  /\ HandleDelete(id, resp')
  /\ req' = Request("delete", id, EmptyBody, "p1", Stored(store, id))

\* ------------------------------------------------------------ web client
\* setInterval(fetchServerInfo, 10000)
RefreshIntervalMs == 10000
\* The step of the client's clock: one timer period.
TickMs == RefreshIntervalMs

\* A fetch in flight: what was sent, the tasks value its handler closed
\* over, and the response once the backend has answered.
Call(kind, id, flag, body, snap) ==
  [kind |-> kind, id |-> id, flag |-> flag, body |-> body, snap |-> snap,
   phase |-> "sent", resp |-> ErrorResponse(0, "")]

FetchTasksCall == Call("fetchTasks", BadId, FALSE, EmptyBody, << >>)
FetchServerInfoCall == Call("fetchServerInfo", BadId, FALSE, EmptyBody, << >>)

Drop(seq, i) == [k \in 1..(Len(seq) - 1) |-> IF k < i THEN seq[k] ELSE seq[k + 1]]

\* task._id of a list entry; undefined (no such field) ends up in the URL
\* as a path segment that is no ObjectId.
EntryId(e) == IF Has(e, "_id") THEN e._id ELSE BadId
\* task.completed of a list entry, as a truth value.
EntryCompleted(e) == Has(e, "completed") /\ e.completed

\* await response.json(): the task, null, or the { error } object.
Data(r) == IF r.error # "" THEN [error |-> r.error] ELSE r.task

\* tasks.map(task => task._id === id ? data : task)
ReplaceById(list, id, data) ==
  [k \in 1..Len(list) |-> IF EntryId(list[k]) = id THEN data ELSE list[k]]
\* tasks.filter(task => task._id !== id)
RemoveById(list, id) == SelectSeq(list, LAMBDA e : EntryId(e) # id)

\* Rendering a list throws on a null entry (task._id of null); an uncaught
\* render error makes React unmount the tree.
Renders(list) == \A k \in 1..Len(list) : list[k] # Null

Live == view = "mounted"

\* History bookkeeping for the first task toggled.
Upto3(n) == IF n < 3 THEN n + 1 ELSE n
TogIssued(id) ==
  IF id = BadId THEN tog
  ELSE IF tog.issued = 0
       THEN [id |-> id,
             orig |-> IF Stored(store, id) THEN Doc(store, id) ELSE None,
             issued |-> 1, done |-> 0, failed |-> FALSE]
       ELSE IF id = tog.id THEN [tog EXCEPT !.issued = Upto3(@)] ELSE tog
TogDone(c, ok) ==
  IF c.kind = "toggle" /\ tog.issued > 0 /\ c.id = tog.id
  THEN [tog EXCEPT !.done = Upto3(@), !.failed = @ \/ ~ok]
  ELSE tog

\* History bookkeeping: the operation being issued overlaps the list fetch.
ListPending == \E i \in 1..Len(calls) : calls[i].kind = "fetchTasks"
Overlap == early' = (early \/ ListPending)

\* useEffect: fetchTasks(); fetchServerInfo(); setInterval(...)
Mount ==
  /\ view = "new"
  /\ view' = "mounted"
  /\ calls' = calls \o << FetchTasksCall, FetchServerInfoCall >>
  /\ timerOn' = TRUE
  /\ sinceFire' = 0
  /\ UNCHANGED <<tasks, serverInfo, newTask, loading, lateCall, tog>>
  /\ UNCHANGED svars
  /\ UNCHANGED ops

\* The effect's cleanup: clearInterval(interval)
Unmount ==
  /\ view = "mounted"
  /\ view' = "torn"
  /\ timerOn' = FALSE
  /\ UNCHANGED <<tasks, serverInfo, newTask, loading, sinceFire, calls, lateCall, tog>>
  /\ UNCHANGED svars
  /\ UNCHANGED ops

\* Time passes for the timer; it fires before its period is overrun.
ClientTick ==
  /\ timerOn
  /\ sinceFire < RefreshIntervalMs
  /\ sinceFire' = sinceFire + TickMs
  /\ UNCHANGED <<view, tasks, serverInfo, newTask, loading, timerOn, calls, lateCall, tog>>
  /\ UNCHANGED svars
  /\ UNCHANGED ops

\* The interval callback: fetchServerInfo()
TimerFire ==
  /\ timerOn
  /\ sinceFire = RefreshIntervalMs
  /\ Len(calls) < MaxInflight
  /\ calls' = Append(calls, FetchServerInfoCall)
  /\ lateCall' = (lateCall \/ ~Live)
  /\ sinceFire' = 0
  /\ UNCHANGED <<view, tasks, serverInfo, newTask, loading, timerOn, tog>>
  /\ UNCHANGED svars
  /\ UNCHANGED ops

\* The user fills the title input.
TypeTitle ==
  /\ Live
  /\ newTask.title = ""
  /\ newTask' = [newTask EXCEPT !.title = "a"]
  /\ UNCHANGED <<view, tasks, serverInfo, loading, timerOn, sinceFire, calls, lateCall, tog>>
  /\ UNCHANGED svars
  /\ UNCHANGED ops

\* createTask up to its await: the form submits only with a title (the
\* input is required) and while the button is enabled.
SubmitTask ==
  /\ Live
  /\ newTask.title # ""
  /\ ~loading
  /\ Len(calls) < MaxInflight
  /\ loading' = TRUE
  /\ calls' = Append(calls, Call("create", BadId, FALSE, newTask, tasks))
  /\ UNCHANGED <<view, tasks, serverInfo, newTask, timerOn, sinceFire, lateCall, tog>>
  /\ UNCHANGED svars
  /\ UNCHANGED ops

\* toggleTask(task._id, task.completed) up to its await.
ToggleTask(k) ==
  /\ Live
  /\ k \in 1..Len(tasks)
  /\ Len(calls) < MaxInflight
  /\ ops < MaxOps
  /\ ops' = ops + 1
  /\ calls' = Append(calls, Call("toggle", EntryId(tasks[k]),
                                 ~EntryCompleted(tasks[k]), EmptyBody, tasks))
  /\ tog' = TogIssued(EntryId(tasks[k]))
  /\ UNCHANGED <<view, tasks, serverInfo, newTask, loading, timerOn, sinceFire, lateCall>>
  /\ UNCHANGED svars

\* deleteTask(task._id) up to its await.
DeleteClick(k) ==
  /\ Live
  /\ k \in 1..Len(tasks)
  /\ Len(calls) < MaxInflight
  /\ ops < MaxOps
  /\ ops' = ops + 1
  /\ calls' = Append(calls, Call("delete", EntryId(tasks[k]), FALSE, EmptyBody, tasks))
  /\ UNCHANGED <<view, tasks, serverInfo, newTask, loading, timerOn, sinceFire, lateCall, tog>>
  /\ UNCHANGED svars

\* A call in flight reaches backend p, whose handler answers it with r.
Answer(i, r) == calls' = [calls EXCEPT ![i].phase = "answered", ![i].resp = r]

Serve(i, p) ==
  /\ i \in 1..Len(calls)
  /\ calls[i].phase = "sent"
  /\ \/ /\ calls[i].kind = "fetchTasks"
        /\ \E list \in FindSorted(store) :
             HandleList(GetTasks(list, dbUp)) /\ Answer(i, GetTasks(list, dbUp))
     \/ /\ calls[i].kind = "fetchServerInfo"
        /\ HandleServerInfo(p, GetServerInfo(p, uptime[p]))
        /\ Answer(i, GetServerInfo(p, uptime[p]))
     \/ /\ calls[i].kind = "create"
        /\ HandleCreate(calls[i].body, p,
                        PostTask(store, calls[i].body, p, nextId, now, dbUp).resp)
        /\ Answer(i, PostTask(store, calls[i].body, p, nextId, now, dbUp).resp)
     \/ /\ calls[i].kind = "toggle"
        /\ HandleUpdate(calls[i].id, [completed |-> calls[i].flag],
                        PutTask(store, calls[i].id, [completed |-> calls[i].flag], dbUp).resp)
        /\ Answer(i, PutTask(store, calls[i].id, [completed |-> calls[i].flag], dbUp).resp)
     \/ /\ calls[i].kind = "delete"
        /\ HandleDelete(calls[i].id, DeleteTask(store, calls[i].id, dbUp).resp)
        /\ Answer(i, DeleteTask(store, calls[i].id, dbUp).resp)
  /\ UNCHANGED <<req, resp>>
  /\ UNCHANGED <<view, tasks, serverInfo, newTask, loading, timerOn, sinceFire, lateCall, tog>>
  /\ UNCHANGED ops

\* The fetch rejects (the backend cannot be reached): the catch logs the
\* error; only createTask goes on, to setLoading(false).
FetchFails(i) ==
  /\ i \in 1..Len(calls)
  /\ calls[i].phase = "sent"
  /\ calls' = Drop(calls, i)
  /\ loading' = IF calls[i].kind = "create" /\ Live THEN FALSE ELSE loading
  /\ tog' = TogDone(calls[i], FALSE)
  /\ UNCHANGED <<view, tasks, serverInfo, newTask, timerOn, sinceFire, lateCall>>
  /\ UNCHANGED svars
  /\ UNCHANGED ops

\* The handler resumes after its awaits with the response. State setters of
\* a component that is no longer mounted do nothing.
Resume(i) ==
  /\ i \in 1..Len(calls)
  /\ calls[i].phase = "answered"
  /\ LET c == calls[i]
         data == Data(c.resp)
         list == CASE c.kind = "create" -> << data >> \o c.snap
                   [] c.kind = "toggle" -> ReplaceById(c.snap, c.id, data)
                   [] c.kind = "delete" -> RemoveById(c.snap, c.id)
                   [] c.kind = "fetchTasks" -> c.resp.list
                   [] OTHER -> tasks
         \* setTasks(data) with the { error } object of a failed list: the
         \* state is no array and the render throws on tasks.map
         thrown == \/ c.kind = "fetchTasks" /\ c.resp.status # 200
                   \/ ~Renders(list)
     IN /\ calls' = IF c.kind = "create"
                    THEN Append(Drop(calls, i), FetchServerInfoCall)
                    ELSE Drop(calls, i)
        /\ lateCall' = (lateCall \/ (c.kind = "create" /\ ~Live))
        /\ tog' = TogDone(c, c.resp.status = 200 /\ c.resp.task # Null)
        /\ IF ~Live
           THEN UNCHANGED <<view, tasks, serverInfo, newTask, loading, timerOn>>
           ELSE /\ tasks' = IF c.kind = "fetchTasks" /\ c.resp.status # 200
                            THEN tasks ELSE list
                /\ view' = IF thrown THEN "crashed" ELSE view
                /\ timerOn' = IF thrown THEN FALSE ELSE timerOn
                /\ serverInfo' = IF c.kind = "fetchServerInfo"
                                 THEN c.resp.task ELSE serverInfo
                /\ newTask' = IF c.kind = "create" THEN BlankTask ELSE newTask
                /\ loading' = IF c.kind = "create" THEN FALSE ELSE loading
  /\ UNCHANGED sinceFire
  /\ UNCHANGED svars
  /\ UNCHANGED ops

\* ---- the shell
Script == IF script = "deploy" THEN DeployScript ELSE SetupScript
Command == Script[pc]
IsCall(c) == c.op \notin LocalOps
Entry(op, a, ok, out) == [op |-> op, a |-> a, ok |-> ok, out |-> out]

\* The next command; the script ends after its last one.
Proceed ==
  /\ pc' = pc + 1
  /\ status' = IF pc = Len(Script) THEN "done" ELSE "running"

\* A command returned a non-zero status.
Failed ==
  IF ErrExit(script) THEN pc' = pc /\ status' = "aborted" ELSE Proceed

\* The operator runs a script in a new shell, once no other is running.
Start(s) ==
  /\ status # "running"
  /\ runs < MaxRuns
  /\ runs' = runs + 1
  /\ script' = s
  /\ pc' = 1
  /\ status' = "running"
  /\ env' = [v \in ShellVars |-> ""]
  /\ trace' = << >>
  /\ began' = [config |-> files.config, cloud |-> cloud]
  /\ UNCHANGED <<cloud, files, nextRes>>

RunSetup == Start("setup")
RunDeploy == Start("deploy")

\* NAME="word" lines
Assign ==
  /\ status = "running"
  /\ Command.op = "assign"
  /\ env' = [v \in ShellVars |->
               IF v \in DOMAIN Command.args THEN Command.args[v].lit ELSE env[v]]
  /\ trace' = Append(trace, Entry("assign", Expand(Command.args, env), TRUE, ""))
  /\ Proceed
  /\ UNCHANGED <<script, cloud, files, runs, nextRes, began>>

\* An aws call that the control plane accepts and carries out.
CallSucceeds ==
  /\ status = "running"
  /\ IsCall(Command)
  /\ LET c == Command
         a == Expand(c.args, env)
         out == Output(c.op, a, nextRes)
     IN /\ Accepts(cloud, c.op, a)
        /\ cloud' = cloud \cup Effect(c.op, a, nextRes)
        /\ nextRes' = IF Kind(c.op) \in Identified \cup {"key"}
                      THEN nextRes + 1 ELSE nextRes
        /\ env' = IF c.out \in ShellVars THEN [env EXCEPT ![c.out] = out] ELSE env
        /\ files' = IF c.out = KeyFile
                    THEN [files EXCEPT !.pem =
                            [data |-> out,
                             mode |-> IF files.pem = None THEN "644" ELSE files.pem.mode]]
                    ELSE files
        /\ trace' = Append(trace, Entry(c.op, a, TRUE, out))
  /\ Proceed
  /\ UNCHANGED <<script, runs, began>>

\* An aws call that fails: rejected by the control plane, or not answered
\* (credentials, limits, throttling, the network). It printed nothing, and
\* a redirection has emptied its file.
CallFails ==
  /\ status = "running"
  /\ IsCall(Command)
  /\ LET c == Command
         a == Expand(c.args, env)
     IN /\ env' = IF c.out \in ShellVars THEN [env EXCEPT ![c.out] = ""] ELSE env
        /\ files' = IF c.out = KeyFile
                    THEN [files EXCEPT !.pem =
                            [data |-> "",
                             mode |-> IF files.pem = None THEN "644" ELSE files.pem.mode]]
                    ELSE files
        /\ trace' = Append(trace, Entry(c.op, a, FALSE, ""))
  /\ Failed
  /\ UNCHANGED <<script, cloud, runs, nextRes, began>>

\* The key file of an earlier run is read-only: the redirection cannot open
\* it (unless the operator is root) and the command is not run.
RedirectDenied ==
  /\ status = "running"
  /\ Command.out = KeyFile
  /\ files.pem # None
  /\ files.pem.mode = "400"
  /\ trace' = Append(trace, Entry("open", NoOptions, FALSE, ""))
  /\ Failed
  /\ UNCHANGED <<script, env, cloud, files, runs, nextRes, began>>

\* chmod 400 ${KEY_PAIR_NAME}.pem
Chmod ==
  /\ status = "running"
  /\ Command.op = "chmod"
  /\ files' = IF files.pem = None THEN files ELSE [files EXCEPT !.pem.mode = "400"]
  /\ trace' = Append(trace, Entry("chmod", NoOptions, files.pem # None, ""))
  /\ Proceed
  /\ UNCHANGED <<script, env, cloud, runs, nextRes, began>>

\* cat > aws-config.txt << CONFIG
SaveConfiguration ==
  /\ status = "running"
  /\ Command.op = "save-config"
  /\ files' = [files EXCEPT !.config = ConfigRecord(env)]
  /\ trace' = Append(trace, Entry("save-config", NoOptions, TRUE, ""))
  /\ Proceed
  /\ UNCHANGED <<script, env, cloud, runs, nextRes, began>>

\* source aws-config.txt
Source ==
  /\ status = "running"
  /\ Command.op = "source"
  /\ files.config # None
  /\ env' = [v \in ShellVars |->
               IF v \in DOMAIN files.config THEN files.config[v] ELSE env[v]]
  /\ trace' = Append(trace, Entry("source", NoOptions, TRUE, ""))
  /\ Proceed
  /\ UNCHANGED <<script, cloud, files, runs, nextRes, began>>

\* source aws-config.txt: No such file or directory
SourceFails ==
  /\ status = "running"
  /\ Command.op = "source"
  /\ files.config = None
  /\ trace' = Append(trace, Entry("source", NoOptions, FALSE, ""))
  /\ Failed
  /\ UNCHANGED <<script, env, cloud, files, runs, nextRes, began>>

\* cat > db-user-data.sh << 'USERDATA'
WriteUserData ==
  /\ status = "running"
  /\ Command.op = "write-user-data"
  /\ files' = [files EXCEPT !.userdata = TRUE]
  /\ trace' = Append(trace, Entry("write-user-data", NoOptions, TRUE, ""))
  /\ Proceed
  /\ UNCHANGED <<script, env, cloud, runs, nextRes, began>>

\* ---------------------------------------------------------- specifications
\* The task API under plain, toggling and identifier-naming requests, served
\* by one backend instance within one clock tick (which instance serves a
\* request, and when, changes only the fields it stamps on a created task).
Next ==
  \/ DbDisconnect /\ UNCHANGED <<cvars, ivars>>
  \/ DbReconnect /\ UNCHANGED <<cvars, ivars>>
  \/ ListTasks /\ UNCHANGED <<cvars, ivars>>
  \/ \E body \in PlainBodies \cup OwnIdBodies : CreateTask(body, "p1") /\ UNCHANGED <<cvars, ivars>>
  \/ \E id \in ParamIds, body \in ToggleBodies : UpdateTask(id, body) /\ UNCHANGED <<cvars, ivars>>
  \/ \E id \in ParamIds : RemoveTask(id) /\ UNCHANGED <<cvars, ivars>>

Spec == Init /\ [][Next]_vars

\* The task API under requests whose bodies carry the server's fields.
NextFields ==
  \/ Tick /\ UNCHANGED <<cvars, ivars>>
  \/ ListTasks /\ UNCHANGED <<cvars, ivars>>
  \/ \E body \in PlainBodies \cup ServerFieldBodies, p \in Procs :
       CreateTask(body, p) /\ UNCHANGED <<cvars, ivars>>
  \/ \E id \in ObjectIds, body \in ServerFieldBodies : UpdateTask(id, body) /\ UNCHANGED <<cvars, ivars>>

SpecFields == Init /\ [][NextFields]_vars

\* The health probe among task requests and connection failures.
NextHealth ==
  \/ Tick /\ UNCHANGED <<cvars, ivars>>
  \/ DbDisconnect /\ UNCHANGED <<cvars, ivars>>
  \/ DbReconnect /\ UNCHANGED <<cvars, ivars>>
  \/ \E p \in Procs : Health(p) /\ UNCHANGED <<cvars, ivars>>
  \/ \E p \in Procs : ServerInfo(p) /\ UNCHANGED <<cvars, ivars>>
  \/ ListTasks /\ UNCHANGED <<cvars, ivars>>
  \/ \E body \in PlainBodies, p \in Procs : CreateTask(body, p) /\ UNCHANGED <<cvars, ivars>>
  \/ \E id \in ParamIds : RemoveTask(id) /\ UNCHANGED <<cvars, ivars>>

SpecHealth == Init /\ [][NextHealth]_vars

\* The web client against one backend with the store reachable.
NextClient ==
  \/ Mount /\ UNCHANGED ivars /\ UNCHANGED early
  \/ Unmount /\ UNCHANGED ivars /\ UNCHANGED early
  \/ ClientTick /\ UNCHANGED ivars /\ UNCHANGED early
  \/ TimerFire /\ UNCHANGED ivars /\ UNCHANGED early
  \/ TypeTitle /\ UNCHANGED ivars /\ UNCHANGED early
  \/ SubmitTask /\ UNCHANGED ivars /\ Overlap
  \/ \E k \in 1..MaxId : ToggleTask(k) /\ UNCHANGED ivars /\ Overlap
  \/ \E k \in 1..MaxId : DeleteClick(k) /\ UNCHANGED ivars /\ Overlap
  \/ \E i \in 1..MaxInflight : Serve(i, "p1") /\ UNCHANGED ivars /\ UNCHANGED early
  \/ \E i \in 1..MaxInflight : FetchFails(i) /\ UNCHANGED ivars /\ UNCHANGED early
  \/ \E i \in 1..MaxInflight : Resume(i) /\ UNCHANGED ivars /\ UNCHANGED early

SpecClient == Init /\ [][NextClient]_vars

\* The task API under updates of the title.
NextTitles ==
  \/ ListTasks /\ UNCHANGED <<cvars, ivars>>
  \/ \E body \in PlainBodies : CreateTask(body, "p1") /\ UNCHANGED <<cvars, ivars>>
  \/ \E id \in ObjectIds, body \in TitleBodies : UpdateTask(id, body) /\ UNCHANGED <<cvars, ivars>>
  \/ \E id \in ObjectIds : RemoveTask(id) /\ UNCHANGED <<cvars, ivars>>

SpecTitles == Init /\ [][NextTitles]_vars

\* The two provisioning scripts, run one after another by the operator
\* against an account that starts clean, any cloud call failing or not.
NextScripts ==
  \/ RunSetup /\ UNCHANGED <<svars, cvars>>
  \/ RunDeploy /\ UNCHANGED <<svars, cvars>>
  \/ Assign /\ UNCHANGED <<svars, cvars>>
  \/ CallSucceeds /\ UNCHANGED <<svars, cvars>>
  \/ CallFails /\ UNCHANGED <<svars, cvars>>
  \/ RedirectDenied /\ UNCHANGED <<svars, cvars>>
  \/ Chmod /\ UNCHANGED <<svars, cvars>>
  \/ SaveConfiguration /\ UNCHANGED <<svars, cvars>>
  \/ Source /\ UNCHANGED <<svars, cvars>>
  \/ SourceFails /\ UNCHANGED <<svars, cvars>>
  \/ WriteUserData /\ UNCHANGED <<svars, cvars>>

SpecScripts == Init /\ [][NextScripts]_vars

\* ------------------------------------------------------------- properties
Range(seq) == {seq[i] : i \in 1..Len(seq)}

\* History lookups: the creation record of the stored task id, and its place
\* in the order of the create requests.
Creation(id) == created[CHOOSE k \in 1..Len(created) : created[k].id = id]
CreationRank(id) == CHOOSE k \in 1..Len(created) : created[k].id = id

Answered(op) == req.op = op
TitleOnly == [title |-> "a"]

\* C1 (as claimed): a DELETE whose identifier matches no stored task is
\* answered 400 with an error, never with the "Task deleted" confirmation.
C1_DeleteMissingIsError ==
  (Answered("delete") /\ ~req.found) =>
    (resp.status = 400 /\ resp.error # "" /\ resp.message # "Task deleted")

\* C2: a create request whose body has no title is answered 400 with an
\* error and leaves the set of stored tasks exactly as it was.
C2_NoTitleRejected ==
  [][(req'.op = "create" /\ ~Has(req'.body, "title")) =>
       (resp'.status = 400 /\ resp'.error # "" /\ store' = store)]_vars

\* C2 witness: a title-less create was refused, by validation alone (the
\* store was reachable), while tasks were stored.
C2_Witness ==
  /\ Answered("create") /\ ~Has(req.body, "title") /\ req.db
  /\ resp.status = 400 /\ resp.error = "ValidationError"
  /\ store # {}

\* C3 (as claimed): a successful list holds every stored task, and a task
\* created by a later request never comes after one created by an earlier one.
C3_ListInRequestOrder ==
  (Answered("list") /\ resp.status = 200) =>
    /\ Range(resp.list) = store
    /\ \A i, j \in 1..Len(resp.list) :
         i < j => CreationRank(resp.list[i]._id) > CreationRank(resp.list[j]._id)

\* C3 (amended): a successful list holds every stored task exactly once, in
\* non-increasing order of the stored createdAt; so of two tasks that still
\* carry their server timestamps, the one created at a later clock value
\* never comes after the other.
C3_ListByCreatedAt ==
  (Answered("list") /\ resp.status = 200) =>
    /\ Range(resp.list) = store
    /\ Len(resp.list) = Cardinality(store)
    /\ \A i, j \in 1..Len(resp.list) :
         i < j => resp.list[i].createdAt >= resp.list[j].createdAt
    /\ \A i, j \in 1..Len(resp.list) :
         ( /\ resp.list[i].createdAt = Creation(resp.list[i]._id).at
           /\ resp.list[j].createdAt = Creation(resp.list[j]._id).at
           /\ Creation(resp.list[i]._id).at > Creation(resp.list[j]._id).at )
         => i < j

\* C3 witness: a list of two tasks in strict createdAt order that is not the
\* order of their create requests.
C3_Witness ==
  /\ Answered("list") /\ resp.status = 200 /\ Len(resp.list) = 2
  /\ resp.list[1].createdAt > resp.list[2].createdAt
  /\ CreationRank(resp.list[1]._id) < CreationRank(resp.list[2]._id)

\* Entry e has the completed flag, identifier, title and description of d.
SameTask(e, d) ==
  /\ EntryCompleted(e) = d.completed
  /\ EntryId(e) = d._id
  /\ Has(e, "title") /\ e.title = d.title
  /\ Has(e, "description") /\ e.description = d.description

\* C4 (as claimed): once two toggles of the same task have both completed
\* (each answered with the updated task), the task's completed flag is the
\* one it had before the first, and its identifier, title and description
\* are unchanged, in the store and in the client's list.
C4_ToggleTwiceRestores ==
  (tog.issued = 2 /\ tog.done = 2 /\ ~tog.failed /\ Stored(store, tog.id)) =>
    /\ SameTask(Doc(store, tog.id), tog.orig)
    /\ Live => \A k \in 1..Len(tasks) :
                 EntryId(tasks[k]) = tog.id => SameTask(tasks[k], tog.orig)

\* C5 (as claimed): a DELETE of a stored task is answered with the
\* confirmation and removes that task and no other, and no later list
\* holds a task with a deleted identifier.
C5_DeletedStaysGone ==
  [][ /\ (req'.op = "delete" /\ req'.found /\ req'.db) =>
           /\ resp'.status = 200 /\ resp'.message = "Task deleted"
           /\ store' = {d \in store : d._id # req'.id}
      /\ (req'.op = "list" /\ resp'.status = 200) =>
           \A i \in 1..Len(resp'.list) : resp'.list[i]._id \notin deleted' ]_vars

\* C6 (as claimed): the stored createdAt of every task is the clock value of
\* the backend when it handled the task's create request.
C6_CreatedAtIsServerTime ==
  \A d \in store : d.createdAt = Creation(d._id).at

\* C7 (as claimed): the stored serverHostname and serverIp of every task are
\* those of the backend process that handled the task's create request.
C7_ServerFieldsAreCreators ==
  \A d \in store :
    /\ d.serverHostname = hostname(Creation(d._id).by)
    /\ d.serverIp = getServerIp(Creation(d._id).by)

\* C8 (as claimed): while the view is mounted the refresh timer is set and
\* fires when its 10 seconds are up; once the view is torn down the timer
\* is cleared and the client issues no further fetch.
C8_NoFetchAfterTeardown ==
  /\ Live => (timerOn /\ sinceFire <= RefreshIntervalMs)
  /\ view \in {"torn", "crashed"} => ~timerOn
  /\ ~lateCall

\* C9: every health probe is answered 200 "OK", whatever the state of the
\* store connection and whatever was requested before, and the uptime it
\* reports is no less than the one the same process reported last.
C9_HealthAlwaysOk ==
  [][req'.op = "health" =>
       /\ resp'.status = 200 /\ resp'.message = "OK"
       /\ resp'.task.uptime >= lastUptime[req'.proc]]_vars

\* C9 witness: a probe answered while the connection was down, at a later
\* uptime than the one another process reported on its last probe.
C9_Witness ==
  /\ Answered("health") /\ ~req.db /\ resp.status = 200
  /\ resp.task.uptime > 0
  /\ \E q \in Procs \ {req.proc} : lastUptime[q] >= 0 /\ lastUptime[q] < resp.task.uptime

\* C10: a create whose body is only a title, handled while the store is
\* reachable, is answered 201 with the stored record: completed false, a
\* well-formed identifier no other stored task has, createdAt the handling
\* backend's clock, and both server fields non-empty, serverIp being
\* "unknown" when the handling process has no external IPv4 address.
C10_TitleOnlyCreate ==
  (Answered("create") /\ req.body = TitleOnly /\ req.db) =>
    /\ resp.status = 201
    /\ resp.task \in store
    /\ resp.task.title = "a"
    /\ resp.task.completed = FALSE
    /\ resp.task._id \in ObjectIds
    /\ \A d \in store : d # resp.task => d._id # resp.task._id
    /\ resp.task.createdAt = Creation(resp.task._id).at
    /\ resp.task.serverHostname = hostname(req.proc)
    /\ resp.task.serverHostname # ""
    /\ resp.task.serverIp # ""
    /\ (\A k \in 1..Len(networkInterfaces(req.proc)) :
          FirstExternalIPv4(networkInterfaces(req.proc)[k]) = "")
       => resp.task.serverIp = "unknown"

\* C10 witness: a title-only create stored beside another task by the
\* process without an external IPv4 address.
C10_Witness ==
  /\ Answered("create") /\ req.body = TitleOnly /\ req.db
  /\ resp.status = 201 /\ resp.task.serverIp = "unknown"
  /\ Cardinality(store) >= 2

\* ---- the task API: failures
\* The request is refused for what it says: a create without a title, an
\* update or delete whose identifier is no ObjectId.
Invalid(r) ==
  \/ r.op = "create" /\ ~TitleRequired(r.body)
  \/ r.op \in {"update", "delete"} /\ r.id = BadId
Writes == {"create", "update", "delete"}

\* C13: every request is answered. A list while the store cannot be reached
\* is answered 500 with an error; a create, update or delete that is invalid
\* or cannot reach the store is answered 400 with an error; a request
\* answered with an error leaves the stored tasks as they were; and the
\* request that follows a failed one is answered as ever: with the store
\* reachable a list gives 200 and every stored task, a title-only create 201
\* and the stored task.
C13_FailuresAnswered ==
  [][ /\ req'.op # "none" => resp'.status \in {200, 201, 400, 500}
      /\ (req'.op = "list" /\ ~req'.db) =>
           (resp'.status = 500 /\ resp'.error # "")
      /\ (req'.op \in Writes /\ (~req'.db \/ Invalid(req'))) =>
           (resp'.status = 400 /\ resp'.error # "")
      /\ resp'.status >= 400 => (resp'.error # "" /\ store' = store)
      /\ (resp.status >= 400 /\ req'.op = "list" /\ req'.db) =>
           (resp'.status = 200 /\ Range(resp'.list) = store)
      /\ (resp.status >= 400 /\ req'.op = "create" /\ req'.body = TitleOnly /\ req'.db) =>
           (resp'.status = 201 /\ resp'.task \in store') ]_vars

\* C13 witness: a list refused with 500 while the store, holding tasks,
\* could not be reached.
C13_Witness ==
  /\ Answered("list") /\ ~req.db /\ resp.status = 500 /\ resp.error # ""
  /\ store # {}

\* C14: an update whose identifier is well formed and matches no stored
\* task, handled while the store is reachable, is answered 200 with a null
\* task and no error, and the stored tasks are as they were.
C14_UpdateMissingIsNull ==
  [][(req'.op = "update" /\ req'.id \in ObjectIds /\ ~req'.found /\ req'.db) =>
       /\ resp'.status = 200
       /\ resp'.task = Null
       /\ resp'.error = ""
       /\ store' = store]_vars

\* C14 witness: such an update answered with null while another task is
\* stored.
C14_Witness ==
  /\ Answered("update") /\ req.id \in ObjectIds /\ ~req.found /\ req.db
  /\ resp.status = 200 /\ resp.task = Null
  /\ store # {}

\* ---- the provisioning scripts
\* The resources and links the current run has added to the account.
Made == cloud \ began.cloud
MadeKind(kind) == {r.id : r \in {x \in Made : x.kind = kind}}
MadeWith(kind, f, w) == {r.id : r \in {x \in Made : x.kind = kind /\ x.of[f] = w}}
SetupDone == script = "setup" /\ status = "done"
Calls == {k \in 1..Len(trace) : trace[k].op \notin LocalOps \cup {"open"}}

\* C11: when a run of aws-setup.sh has reached its end, aws-config.txt holds
\* exactly the fourteen named fields, none empty, each the identifier the
\* control plane returned in this run for the resource of that name (for
\* ALB_DNS the DNS name of the load balancer, for KEY_PAIR_NAME the name the
\* key pair was created under).
C11_ConfigRecordWritten ==
  SetupDone =>
    /\ DOMAIN files.config = ConfigFields
    /\ Cardinality(DOMAIN files.config) = 14
    /\ \A f \in DOMAIN files.config : files.config[f] # ""
    /\ MadeKind("vpc") = {files.config.VPC_ID}
    /\ MadeKind("igw") = {files.config.IGW_ID}
    /\ MadeWith("subnet", "cidr", "10.0.1.0/24") = {files.config.PUBLIC_SUBNET_1}
    /\ MadeWith("subnet", "cidr", "10.0.2.0/24") = {files.config.PUBLIC_SUBNET_2}
    /\ MadeWith("subnet", "cidr", "10.0.3.0/24") = {files.config.PRIVATE_SUBNET_1}
    /\ MadeWith("subnet", "cidr", "10.0.4.0/24") = {files.config.PRIVATE_SUBNET_2}
    /\ MadeWith("sg", "name", "alb-sg") = {files.config.ALB_SG}
    /\ MadeWith("sg", "name", "backend-sg") = {files.config.BACKEND_SG}
    /\ MadeWith("sg", "name", "frontend-sg") = {files.config.FRONTEND_SG}
    /\ MadeWith("sg", "name", "db-sg") = {files.config.DB_SG}
    /\ MadeKind("tg") = {files.config.TARGET_GROUP_ARN}
    /\ MadeKind("alb") = {files.config.ALB_ARN}
    /\ files.config.ALB_DNS = DnsName(files.config.ALB_ARN)
    /\ MadeKind("key") = {files.config.KEY_PAIR_NAME}

\* C11 witness: the first run, against the clean account, has reached its
\* end and written the record.
C11_Witness ==
  /\ SetupDone /\ runs = 1 /\ began.cloud = {}
  /\ files.config # None /\ files.config.VPC_ID # ""

\* C12: in a run of aws-setup.sh a command that fails is the last one the
\* run executes (nothing follows it, nor is it issued again) and the run is
\* aborted; aws-config.txt is as it was when the run began, and everything
\* the account held before and everything the earlier commands of the run
\* made is still in the account.
C12_AbortsAtFirstFailure ==
  script = "setup" =>
    \A k \in 1..Len(trace) :
      ~trace[k].ok =>
        /\ k = Len(trace)
        /\ status = "aborted"
        /\ files.config = began.config
        /\ began.cloud \subseteq cloud
        /\ \A j \in 1..(k - 1) :
             /\ trace[j].ok
             /\ Kind(trace[j].op) # "" =>
                  \E r \in cloud : r.kind = Kind(trace[j].op) /\ r.of = trace[j].a

\* C12 witness: the run failed at its last cloud call, the listener, with
\* the load balancer and everything before it made.
C12_Witness ==
  /\ script = "setup" /\ status = "aborted" /\ Len(trace) > 0
  /\ trace[Len(trace)].op = "create-listener" /\ ~trace[Len(trace)].ok
  /\ MadeKind("alb") # {} /\ files.config = None

\* The ingress rules of security group g, each as (port, cidr or source
\* group).
Rule(of) ==
  [port |-> of.port,
   cidr |-> IF Has(of, "cidr") THEN of.cidr ELSE "",
   source |-> IF Has(of, "source") THEN of.source ELSE ""]
Rules(g) == {Rule(r.of) : r \in {x \in cloud : x.kind = "ingress" /\ x.of.group = g}}
Named(g, name) == \E r \in cloud : r.kind = "sg" /\ r.id = g /\ r.of.name = name

\* C15: when a run of aws-setup.sh has reached its end, the only ingress
\* rule of the database group is TCP 27017 from the backend group, and the
\* rules of the backend group are TCP 5000 from the load balancer's group
\* and TCP 22 from anywhere and no other; and at no time does any group of
\* the account admit port 27017 from an address range or from a group other
\* than a backend group.
C15_DatabaseBehindBackend ==
  /\ SetupDone =>
       /\ Rules(files.config.DB_SG) =
            { [port |-> "27017", cidr |-> "", source |-> files.config.BACKEND_SG] }
       /\ Rules(files.config.BACKEND_SG) =
            { [port |-> "5000", cidr |-> "", source |-> files.config.ALB_SG],
              [port |-> "22", cidr |-> "0.0.0.0/0", source |-> ""] }
       /\ Named(files.config.DB_SG, "db-sg")
       /\ Named(files.config.BACKEND_SG, "backend-sg")
       /\ Named(files.config.ALB_SG, "alb-sg")
  /\ \A r \in cloud :
       (r.kind = "ingress" /\ r.of.port = "27017") =>
         (Rule(r.of).cidr = "" /\ Named(Rule(r.of).source, "backend-sg"))

\* C15 witness: a run has reached its end and the database group has its
\* rule.
C15_Witness ==
  /\ SetupDone
  /\ \E r \in Made : r.kind = "ingress" /\ r.of.port = "27017"
                     /\ r.of.group = files.config.DB_SG

\* ---- the web client: overlapping operations
ListedIds == {EntryId(tasks[k]) : k \in 1..Len(tasks)}

\* C16 (as claimed): once every call has completed, the list of a mounted
\* client whose operations all began after the mount's list fetch was over
\* holds exactly the stored tasks, each with the stored completed flag, and
\* none that a delete removed.
C16_ListReflectsOperations ==
  (Live /\ calls = << >> /\ ~early) =>
    /\ ListedIds = {d._id : d \in store}
    /\ \A k \in 1..Len(tasks) : \A d \in store :
         EntryId(tasks[k]) = d._id => EntryCompleted(tasks[k]) = d.completed
    /\ ListedIds \cap deleted = {}

\* A Task record with an identifier a backend has issued.
IsTask(e) ==
  /\ e # Null
  /\ Has(e, "_id") /\ Has(e, "title") /\ Has(e, "completed")
  /\ e._id \in 1..(nextId - 1)
\* The answer to an operation's call is an error status or an empty result.
Unsuccessful(c) ==
  /\ c.kind \in {"create", "toggle", "delete"}
  /\ c.resp.status >= 400 \/ (c.kind = "toggle" /\ c.resp.task = Null)
\* The handler that awaited call i has run on.
Resumed(i) ==
  \/ calls' = Drop(calls, i)
  \/ calls' = Append(Drop(calls, i), FetchServerInfoCall)

\* C17 (as claimed): every element of the client's list is a Task record
\* with an identifier the API has issued, and a handler that resumes with an
\* unsuccessful answer leaves the list as it was.
C17_ListChangesOnSuccessOnly ==
  [][ /\ \A k \in 1..Len(tasks') : IsTask(tasks'[k])
      /\ \A i \in 1..Len(calls) :
           (calls[i].phase = "answered" /\ Unsuccessful(calls[i]) /\ Resumed(i))
             => tasks' = tasks ]_vars

\* ---- the task API: the required title
\* C18 (as claimed): every stored task has a title that satisfies the
\* schema's required rule (present and not empty).
C18_EveryTaskTitled ==
  \A d \in store : TitleRequired(d)

\* ---- the provisioning scripts: the order of the calls
\* Record cfg names a network that a run of aws-setup.sh has made to its
\* end: its resources are in the account, the subnets and groups in its
\* virtual network, and the listener, the last thing a run makes, forwards
\* from its load balancer to its target group.
CompleteNetwork(cfg) ==
  /\ cfg # None
  /\ Exists(cloud, "vpc", cfg.VPC_ID)
  /\ \E r \in cloud : /\ r.kind = "subnet" /\ r.id = cfg.PRIVATE_SUBNET_1
                      /\ r.of.vpc = cfg.VPC_ID /\ r.of.cidr = "10.0.3.0/24"
  /\ \E r \in cloud : /\ r.kind = "sg" /\ r.id = cfg.DB_SG
                      /\ r.of.vpc = cfg.VPC_ID /\ r.of.name = "db-sg"
  /\ Exists(cloud, "key", cfg.KEY_PAIR_NAME)
  /\ \E r \in cloud : /\ r.kind = "listener"
                      /\ r.of.alb = cfg.ALB_ARN /\ r.of.tg = cfg.TARGET_GROUP_ARN

\* C19: in a run of deploy-instances.sh, if no aws-config.txt was there when
\* it began, the run is aborted at its first command with no cloud call
\* issued and no instance made; the launch is issued only with an
\* aws-config.txt that names the network of a completed run of aws-setup.sh,
\* with that record's first private subnet, database group and key pair;
\* and the private address is asked for only after the wait for the same
\* instance has returned with success.
C19_LaunchFromCompletedRecord ==
  script = "deploy" =>
    /\ began.config = None =>
         /\ Calls = {}
         /\ MadeKind("instance") = {}
         /\ trace # << >> => status = "aborted"
    /\ \A k \in 1..Len(trace) :
         trace[k].op = "run-instances" =>
           /\ files.config = began.config
           /\ CompleteNetwork(files.config)
           /\ trace[k].a.subnet = files.config.PRIVATE_SUBNET_1
           /\ trace[k].a.sg = files.config.DB_SG
           /\ trace[k].a.key = files.config.KEY_PAIR_NAME
    /\ \A r \in Made :
         r.kind = "instance" =>
           /\ r.of.subnet = files.config.PRIVATE_SUBNET_1
           /\ r.of.sg = files.config.DB_SG
    /\ \A k \in 1..Len(trace) :
         trace[k].op = "describe-instances" =>
           \E j \in 1..(k - 1) :
             /\ trace[j].op = "wait instance-running" /\ trace[j].ok
             /\ trace[j].a.instance = trace[k].a.instance
             /\ trace[j].a.instance \in MadeKind("instance")

\* C19 witness: the database instance is launched from the record of a
\* completed run and its private address has been read.
C19_Witness ==
  /\ script = "deploy" /\ status = "done"
  /\ MadeKind("instance") # {}
  /\ env["DB_PRIVATE_IP"] # ""

\* C20: in a run of aws-setup.sh no cloud call is issued with an empty
\* word, and every resource a call names was returned, as a resource of the
\* kind the option takes, by an earlier call of the same run that succeeded
\* (so the gateway is attached and routed to after the virtual network and
\* the gateway were made, a rule names a source group made before it, and
\* the listener follows its load balancer and target group).
C20_CallsNameMadeResources ==
  script = "setup" =>
    \A k \in Calls :
      /\ \A o \in DOMAIN trace[k].a : trace[k].a[o] # ""
      /\ \A o \in (DOMAIN trace[k].a) \cap (DOMAIN KindOfOption) :
           \E j \in 1..(k - 1) :
             /\ trace[j].ok
             /\ Kind(trace[j].op) = KindOfOption[o]
             /\ trace[j].out = trace[k].a[o]

\* C20 witness: the listener, the last call, has been made in a run.
C20_Witness ==
  /\ script = "setup"
  /\ \E k \in 1..Len(trace) : trace[k].op = "create-listener" /\ trace[k].ok
  /\ \E k \in 1..Len(trace) : trace[k].op = "create-route" /\ trace[k].ok
====
